---- MODULE Spec2Model ----
(***************************************************************************)
(* Model of carve: pkg/carve (ExtractSchema, ParseLine, ExtractValues,     *)
(* ArrowWriter) and the ingestion loop of cmd/carve.                       *)
(*                                                                         *)
(* Text is a sequence of one-character strings; a byte sequence is a       *)
(* sequence of byte codes.  A compiled pattern is a sequence of capture    *)
(* groups joined by the literal "-", e.g. (?P<a>\w+)-(?P<b>\d+) is         *)
(* <<[name |-> "a", cls |-> "w+"], [name |-> "b", cls |-> "d+"]>>.         *)
(* An unnamed group has name "".  Matching is unanchored, leftmost,        *)
(* greedy, as in package regexp.                                           *)
(***************************************************************************)
EXTENDS Integers, Sequences, FiniteSets, TLC

\* ------------------------------------------------------------------ bounds
MaxLineLen == 3     \* longest line handed to the pure functions
MaxAppends == 3     \* most Append calls in one behaviour of the writer
MaxFlushes == 2     \* most Flush calls in one behaviour of the writer
MaxK       == 2     \* largest configured maximum rows per batch
MaxLines   == 4     \* most input lines read by the ingestion loop
MaxLimit   == 2     \* largest --max-rows value

\* ------------------------------------------------------------- text, bytes
Chars == {"a", "1", "-"}

\* Byte code of a character (string -> []byte conversion, one byte each).
Ord(c) == CASE c = "a" -> 97 [] c = "1" -> 49 [] c = "-" -> 45

\* Character of a byte code ([]byte -> string conversion).
Chr(b) == CASE b = 97 -> "a" [] b = 49 -> "1" [] b = 45 -> "-"

StringToBytes(s) == [i \in 1..Len(s) |-> Ord(s[i])]

BytesToString(b) == [i \in 1..Len(b) |-> Chr(b[i])]

\* All texts of length at most n.
RECURSIVE TextsUpTo(_)
TextsUpTo(n) ==
    IF n = 0 THEN {<<>>}
    ELSE LET S == TextsUpTo(n - 1)
         IN  S \cup {Append(s, c) : s \in {t \in S : Len(t) = n - 1}, c \in Chars}

Lines == TextsUpTo(MaxLineLen)

\* The lines fed to the writer and to the ingestion loop: "", "a-1", "--".
InputLines == {<<>>, <<"a", "-", "1">>, <<"-", "-">>}

\* Go's nil slice is distinct from an empty, non-nil slice.
NilSlice == [isNil |-> TRUE, elems |-> <<>>]

Slice(s) == [isNil |-> FALSE, elems |-> s]

\* ---------------------------------------------------------------- patterns
Group(n, c) == [name |-> n, cls |-> c]

NilRe == [isNil |-> TRUE, groups |-> <<>>]

Compiled(gs) == [isNil |-> FALSE, groups |-> gs]

\* (?P<a>\w+)-(?P<b>\d+)
PatAB == Compiled(<<Group("a", "w+"), Group("b", "d+")>>)

\* (\w+)-(\d+)
PatUnnamed == Compiled(<<Group("", "w+"), Group("", "d+")>>)

\* (?P<name>\w*)-(\d*)-(?P<value>\w*)
PatMixed == Compiled(<<Group("name", "w*"), Group("", "d*"), Group("value", "w*")>>)

\* (?P<field>\w+)
PatField == Compiled(<<Group("field", "w+")>>)

\* (?P<a>\w*)-(?P<b>\d+)?
PatOpt == Compiled(<<Group("a", "w*"), Group("b", "d?")>>)

Patterns == {PatAB, PatUnnamed, PatMixed, PatField, PatOpt, NilRe}

\* ------------------------------------------------------------ regexp model
IsDigitByte(b) == b >= 48 /\ b <= 57

IsWordByte(b) ==
    \/ IsDigitByte(b)
    \/ (b >= 97 /\ b <= 122)
    \/ (b >= 65 /\ b <= 90)
    \/ b = 95

InClass(cls, b) == IF cls \in {"w+", "w*"} THEN IsWordByte(b) ELSE IsDigitByte(b)

\* Offset just past the longest run of class bytes that starts at offset pos.
RECURSIVE RunEnd(_, _, _)
RunEnd(b, pos, cls) ==
    IF pos < Len(b) /\ InClass(cls, b[pos + 1])
    THEN RunEnd(b, pos + 1, cls)
    ELSE pos

\* Match of groups i..n at offset pos: [ok, loc] where loc holds one
\* <<start, end>> pair per group, <<-1, -1>> for a group that took no part.
RECURSIVE MatchFrom(_, _, _, _)
MatchFrom(gs, b, i, pos) ==
    IF i > Len(gs) THEN [ok |-> TRUE, loc |-> <<>>]
    ELSE
      LET cls  == gs[i].cls
          e    == RunEnd(b, pos, cls)
          need == cls \in {"w+", "d+"}
          pair == IF cls = "d?" /\ e = pos THEN <<-1, -1>> ELSE <<pos, e>>
          \* the literal "-" between two groups
          sep  == i < Len(gs)
          next == IF sep THEN e + 1 ELSE e
      IN  IF need /\ e = pos THEN [ok |-> FALSE, loc |-> <<>>]
          ELSE IF sep /\ ~(e < Len(b) /\ b[e + 1] = 45)
               THEN [ok |-> FALSE, loc |-> <<>>]
          ELSE LET rest == MatchFrom(gs, b, i + 1, next)
               IN  IF rest.ok
                   THEN [ok |-> TRUE, loc |-> <<pair>> \o rest.loc]
                   ELSE [ok |-> FALSE, loc |-> <<>>]

\* Leftmost match: the first offset at which the pattern matches.
RECURSIVE SearchFrom(_, _, _)
SearchFrom(gs, b, start) ==
    IF start > Len(b) THEN [ok |-> FALSE, loc |-> <<>>]
    ELSE LET m == MatchFrom(gs, b, 1, start)
         IN  IF m.ok THEN m ELSE SearchFrom(gs, b, start + 1)

\* regexp.FindSubmatchIndex without the whole-match pair.
FindSubmatchIndex(re, b) == SearchFrom(re.groups, b, 0)

\* s[lo:hi] with 0-based offsets.
Substr(s, lo, hi) == SubSeq(s, lo + 1, hi)

\* re.FindStringSubmatch(s)[1:], nil when there is no match; a group that
\* took no part yields "".
FindStringSubmatch(re, s) ==
    LET m == FindSubmatchIndex(re, StringToBytes(s))
    IN  IF ~m.ok THEN NilSlice
        ELSE Slice([i \in 1..Len(m.loc) |->
                      IF m.loc[i][1] < 0 THEN <<>>
                      ELSE Substr(s, m.loc[i][1], m.loc[i][2])])

\* re.FindSubmatch(b)[1:], nil when there is no match; a group that took no
\* part yields a nil (empty) byte slice.
FindSubmatch(re, b) ==
    LET m == FindSubmatchIndex(re, b)
    IN  IF ~m.ok THEN NilSlice
        ELSE Slice([i \in 1..Len(m.loc) |->
                      IF m.loc[i][1] < 0 THEN <<>>
                      ELSE Substr(b, m.loc[i][1], m.loc[i][2])])

\* re.SubexpNames()[1:]
SubexpNames(re) == [i \in 1..Len(re.groups) |-> re.groups[i].name]

\* ---------------------------------------------------------------- pkg/carve
StringType == "utf8"

Field(n) == [Name |-> n, Type |-> StringType]

NoSchema == [isNil |-> TRUE, fields |-> <<>>]

\* NamedFields without the skip of unnamed groups.
RECURSIVE NamedFields_KeepUnnamed(_)
NamedFields_KeepUnnamed(names) ==
    IF names = <<>> THEN <<>>
    ELSE <<Field(Head(names))>> \o NamedFields_KeepUnnamed(Tail(names))

\* Fields of the names that are not "", in order.
RECURSIVE NamedFields(_)
NamedFields(names) ==
    IF names = <<>> THEN <<>>
    ELSE IF Head(names) = "" THEN NamedFields(Tail(names))
    ELSE <<Field(Head(names))>> \o NamedFields(Tail(names))

ErrNilRegexp == "nil regexp"

ErrNoNamedGroups == "pattern must contain named capture groups"

\* ExtractSchema without the check for an empty field list.
ExtractSchema_NoEmptyCheck(re) ==
    IF re.isNil THEN [schema |-> NoSchema, err |-> ErrNilRegexp]
    ELSE [schema |-> [isNil |-> FALSE,
                      fields |-> SelectSeq([i \in 1..Len(re.groups) |->
                                              Field(re.groups[i].name)],
                                           LAMBDA f : f.Name # "")],
          err |-> ""]

ExtractSchema(re) ==
    IF re.isNil THEN [schema |-> NoSchema, err |-> ErrNilRegexp]
    ELSE LET fields == NamedFields(SubexpNames(re))
         IN  IF Len(fields) = 0
             THEN [schema |-> NoSchema, err |-> ErrNoNamedGroups]
             ELSE [schema |-> [isNil |-> FALSE, fields |-> fields], err |-> ""]

\* T is the type argument: "string", "[]byte", or a named type whose
\* underlying type is one of them; line is text for string kinds and a byte
\* sequence for byte kinds.
TypeArgs == {"string", "[]byte", "named string", "named []byte"}

\* ExtractValues whose byte variant copies the captures from the second on.
ExtractValues_BytesFromSecond(T, line, re) ==
    IF re.isNil THEN NilSlice
    ELSE CASE T = "string" -> FindStringSubmatch(re, line)
           [] T = "[]byte" ->
                 LET m == FindSubmatch(re, line)
                 IN  IF m.isNil THEN NilSlice ELSE Slice(Tail(m.elems))
           [] OTHER        -> NilSlice

\* ExtractValues taking an empty capture for a failed match.
ExtractValues_NilOnEmpty(T, line, re) ==
    IF re.isNil THEN NilSlice
    ELSE LET m == CASE T = "string" -> FindStringSubmatch(re, line)
                    [] T = "[]byte" -> FindSubmatch(re, line)
                    [] OTHER        -> NilSlice
         IN  IF \E i \in 1..Len(m.elems) : m.elems[i] = <<>>
             THEN NilSlice ELSE m

ExtractValues(T, line, re) ==
    IF re.isNil THEN NilSlice
    ELSE CASE T = "string" -> FindStringSubmatch(re, line)
           [] T = "[]byte" -> FindSubmatch(re, line)
           [] OTHER        -> NilSlice

\* ParseLine returning an empty row, not nil, for a line without a match.
ParseLine_EmptyOnNoMatch(ln, r) ==
    LET v == ExtractValues("string", ln, r)
    IN  IF v.isNil THEN Slice(<<>>) ELSE v

ParseLine(line, re) == ExtractValues("string", line, re)

\* A freshly built column builder holds no values.
NewStringBuilder == <<>>

NoWriter == [isNil |-> TRUE]

NewArrowWriter(sch, maxRows) ==
    [isNil       |-> FALSE,
     schema      |-> sch,
     builders    |-> [i \in 1..Len(sch.fields) |-> NewStringBuilder],
     maxRows     |-> maxRows,
     rowsInBatch |-> 0]

\* Append whose loop starts at the second value.
ArrowWriterAppend_SkipsFirstValue(wr, values) ==
    LET N == Len(wr.builders)
        n == Len(values)
        m == IF n < N THEN n ELSE N
        bs == [i \in 1..N |-> IF 1 < i /\ i <= m
                              THEN Append(wr.builders[i], values[i])
                              ELSE wr.builders[i]]
    IN  IF n > N
        THEN [w |-> [wr EXCEPT !.builders = bs], panic |-> TRUE]
        ELSE [w |-> [wr EXCEPT !.builders = bs, !.rowsInBatch = @ + 1],
              panic |-> FALSE]

\* Append that gives every builder the first value of the row.
ArrowWriterAppend_FirstValueOnly(wr, values) ==
    LET N == Len(wr.builders)
        n == Len(values)
        m == IF n < N THEN n ELSE N
        bs == [i \in 1..N |-> IF i <= m THEN Append(wr.builders[i], values[1])
                                         ELSE wr.builders[i]]
    IN  IF n > N
        THEN [w |-> [wr EXCEPT !.builders = bs], panic |-> TRUE]
        ELSE [w |-> [wr EXCEPT !.builders = bs, !.rowsInBatch = @ + 1],
              panic |-> FALSE]

\* Append that starts a new batch by itself once the maximum is reached.
ArrowWriterAppend_ResetsAtMaximum(wr, values) ==
    LET N == Len(wr.builders)
        n == Len(values)
        m == IF n < N THEN n ELSE N
        bs == [i \in 1..N |-> IF i <= m THEN Append(wr.builders[i], values[i])
                                         ELSE wr.builders[i]]
        full == wr.maxRows > 0 /\ wr.rowsInBatch + 1 >= wr.maxRows
    IN  IF n > N
        THEN [w |-> [wr EXCEPT !.builders = bs], panic |-> TRUE]
        ELSE IF full
        THEN [w |-> [wr EXCEPT !.builders = [i \in 1..N |-> NewStringBuilder],
                               !.rowsInBatch = 0],
              panic |-> FALSE]
        ELSE [w |-> [wr EXCEPT !.builders = bs, !.rowsInBatch = @ + 1],
              panic |-> FALSE]

\* builders[i].Append(v) for i in range values; indexing past the last
\* builder is a run-time panic that leaves the earlier builders appended to
\* and the row count as it was.
ArrowWriterAppend(wr, values) ==
    LET N == Len(wr.builders)
        n == Len(values)
        m == IF n < N THEN n ELSE N
        bs == [i \in 1..N |-> IF i <= m THEN Append(wr.builders[i], values[i])
                                         ELSE wr.builders[i]]
    IN  IF n > N
        THEN [w |-> [wr EXCEPT !.builders = bs], panic |-> TRUE]
        ELSE [w |-> [wr EXCEPT !.builders = bs, !.rowsInBatch = @ + 1],
              panic |-> FALSE]

\* ShouldFlush that takes a maximum of zero for a threshold.
ShouldFlush_ZeroIsThreshold(wr) ==
    wr.maxRows >= 0 /\ wr.rowsInBatch >= wr.maxRows

\* ShouldFlush that waits until the maximum is exceeded.
ShouldFlush_Strict(wr) == wr.maxRows > 0 /\ wr.rowsInBatch > wr.maxRows

\* ShouldFlush with the sign test turned round.
ShouldFlush_SignFlipped(wr) == wr.maxRows < 0 /\ wr.rowsInBatch >= wr.maxRows

\* ShouldFlush without the test for a positive maximum.
ShouldFlush_NoPositiveCheck(wr) == wr.rowsInBatch >= wr.maxRows

ShouldFlush(wr) == wr.maxRows > 0 /\ wr.rowsInBatch >= wr.maxRows

Rows(wr) == wr.rowsInBatch

NoRecord == [isNil |-> TRUE]

\* array.NewRecord panics when a column is shorter than the row count.
RecordValid(arrays, nrows) == \A i \in 1..Len(arrays) : Len(arrays[i]) >= nrows

\* Flush that leaves the row count as it was.
Flush_KeepsCount(wr) ==
    LET arrays == [i \in 1..Len(wr.builders) |-> wr.builders[i]]
        fresh  == [i \in 1..Len(wr.builders) |-> NewStringBuilder]
    IN  IF RecordValid(arrays, wr.rowsInBatch)
        THEN [w     |-> [wr EXCEPT !.builders = fresh],
              rec   |-> [isNil |-> FALSE, schema |-> wr.schema,
                         cols |-> arrays, nrows |-> wr.rowsInBatch],
              panic |-> FALSE]
        ELSE [w     |-> [wr EXCEPT !.builders = fresh],
              rec   |-> NoRecord,
              panic |-> TRUE]

\* Flush that does not replace the builders.
Flush_KeepsBuilders(wr) ==
    LET arrays == [i \in 1..Len(wr.builders) |-> wr.builders[i]]
    IN  IF RecordValid(arrays, wr.rowsInBatch)
        THEN [w     |-> [wr EXCEPT !.rowsInBatch = 0],
              rec   |-> [isNil |-> FALSE, schema |-> wr.schema,
                         cols |-> arrays, nrows |-> wr.rowsInBatch],
              panic |-> FALSE]
        ELSE [w     |-> wr,
              rec   |-> NoRecord,
              panic |-> TRUE]

Flush(wr) ==
    LET arrays == [i \in 1..Len(wr.builders) |-> wr.builders[i]]
        fresh  == [i \in 1..Len(wr.builders) |-> NewStringBuilder]
    IN  IF RecordValid(arrays, wr.rowsInBatch)
        THEN [w     |-> [wr EXCEPT !.builders = fresh, !.rowsInBatch = 0],
              rec   |-> [isNil |-> FALSE, schema |-> wr.schema,
                         cols |-> arrays, nrows |-> wr.rowsInBatch],
              panic |-> FALSE]
        ELSE [w     |-> [wr EXCEPT !.builders = fresh],
              rec   |-> NoRecord,
              panic |-> TRUE]

NumCols(r) == Len(r.cols)

NumRows(r) == r.nrows

\* ------------------------------------------------------------------- state
VARIABLES
    re,         \* the compiled pattern (NilRe for a nil *regexp.Regexp)
    schema,     \* schema returned by ExtractSchema, NoSchema before / on error
    err,        \* error returned by ExtractSchema, "" for none
    w,          \* the ArrowWriter, NoWriter before construction
    line,       \* the caller's current line, "" when it holds none
    vals,       \* the slice ParseLine returned for it, nil when none is held
    arg,        \* the row last passed to Append
    argParsed,  \* that row was the slice ParseLine returned
    rec,        \* the Record last returned by Flush
    records,    \* every Record returned by Flush, in order
    ret,        \* value the last call returned, 0 when it was no query
    lastOp,     \* name of the last call made
    prevRows,   \* Rows() immediately before the last writer call
    nAppends,   \* number of completed Append calls
    wellShaped, \* every Append so far had one value per schema field
    appended,   \* the rows of the completed Append calls, in order
    panicked,   \* a run-time panic ended the program
    \* cmd/carve
    pc,         \* where main stands
    flags,      \* the parsed command line
    lineNum,    \* lines read so far
    input,      \* the lines scanner.Scan() delivered, in order
    totalRows,  \* rows appended so far
    out,        \* the Records ipcWriter.Write accepted, in order
    released,   \* released[i]: how often records[i] was released
    log,        \* what the run logged, in order
    stdout,     \* what the run printed, in order
    exit,       \* "" while running, "ok" on return, else why the run died
    outCreated, \* the output file was created
    \* two writers on one allocator
    heap,       \* the objects obtained from the allocator, by address
    ws,         \* the writers built, each naming its builders by address
    held,       \* the Records returned to the caller, in order
    who         \* the writer the last call was made on, 0 for none

libVars == <<re, schema, err, w, line, vals, arg, argParsed, rec, records,
             ret, lastOp, prevRows, nAppends, wellShaped, appended,
             panicked>>

mainVars == <<pc, flags, lineNum, input, totalRows, out, released, log, stdout,
              exit, outCreated>>

twoVars == <<heap, ws, held, who>>

vars == <<libVars, mainVars, twoVars>>

\* The flags of a program that only calls the library.
NoFlags ==
    [showVersion |-> FALSE,
     pattern |-> [given |-> FALSE, compiles |-> FALSE, re |-> NilRe],
     output |-> FALSE,
     schemaOnly |-> FALSE, verbose |-> FALSE, benchReport |-> FALSE,
     flush |-> 0, maxRows |-> 0]

InitNoMain ==
    /\ pc = "lib"
    /\ flags = NoFlags
    /\ lineNum = 0
    /\ input = <<>>
    /\ totalRows = 0
    /\ out = <<>>
    /\ released = <<>>
    /\ log = <<>>
    /\ stdout = <<>>
    /\ exit = ""
    /\ outCreated = FALSE

\* A program with one writer obtains nothing else from the allocator.
InitNoTwo ==
    /\ heap = <<>>
    /\ ws = <<>>
    /\ held = <<>>
    /\ who = 0

\* ------------------------------------------------ the library, any caller
InitLib ==
    /\ schema = NoSchema
    /\ err = ""
    /\ w = NoWriter
    /\ vals = NilSlice
    /\ arg = <<>>
    /\ argParsed = FALSE
    /\ rec = NoRecord
    /\ records = <<>>
    /\ ret = 0
    /\ lastOp = "init"
    /\ prevRows = 0
    /\ nAppends = 0
    /\ wellShaped = TRUE
    /\ appended = <<>>
    /\ panicked = FALSE

Init ==
    /\ re \in Patterns
    /\ line = <<>>
    /\ InitLib
    /\ InitNoMain
    /\ InitNoTwo

CallExtractSchema ==
    /\ UNCHANGED twoVars
    /\ ~panicked
    /\ schema.isNil /\ err = ""
    /\ LET r == ExtractSchema(re)
       IN  /\ schema' = r.schema
           /\ err' = r.err
    /\ lastOp' = "ExtractSchema"
    /\ UNCHANGED mainVars
    /\ UNCHANGED <<re, w, line, vals, arg, argParsed, rec, records, ret,
                   prevRows, nAppends, wellShaped, appended, panicked>>

\* Callers build the writer only from a schema they obtained without error.
CallNewArrowWriter ==
    /\ UNCHANGED twoVars
    /\ ~panicked
    /\ w.isNil
    /\ ~schema.isNil
    /\ \E k \in -1..MaxK : w' = NewArrowWriter(schema, k)
    /\ lastOp' = "NewArrowWriter"
    /\ prevRows' = 0
    /\ UNCHANGED mainVars
    /\ UNCHANGED <<re, schema, err, line, vals, arg, argParsed, rec, records,
                   ret, nAppends, wellShaped, appended, panicked>>

CallParseLine ==
    /\ UNCHANGED twoVars
    /\ ~panicked
    /\ ~w.isNil
    /\ \E l \in InputLines :
          /\ line' = l
          /\ vals' = ParseLine(l, re)
    /\ lastOp' = "ParseLine"
    /\ ret' = 0
    /\ UNCHANGED mainVars
    /\ UNCHANGED <<re, schema, err, w, arg, argParsed, rec, records,
                   prevRows, nAppends, wellShaped, appended, panicked>>

\* The rows a caller passes to Append: the row ParseLine returned, or an
\* empty row (a row the caller assembled itself, with too few values).
\* The parsed row and its line go out of scope with the call.
AppendArgs == IF vals.isNil THEN {<<>>} ELSE {vals.elems, <<>>}

CallAppend ==
    /\ UNCHANGED twoVars
    /\ ~panicked
    /\ ~w.isNil
    /\ nAppends < MaxAppends
    /\ \E row \in AppendArgs :
          LET r == ArrowWriterAppend(w, row)
          IN  /\ w' = r.w
              /\ arg' = row
              /\ argParsed' = (~vals.isNil /\ row = vals.elems)
              /\ panicked' = r.panic
              /\ nAppends' = IF r.panic THEN nAppends ELSE nAppends + 1
              /\ wellShaped' = (wellShaped /\ Len(row) = Len(w.builders))
              /\ appended' = IF r.panic THEN appended
                                       ELSE Append(appended, row)
    /\ prevRows' = w.rowsInBatch
    /\ lastOp' = "Append"
    /\ line' = <<>>
    /\ vals' = NilSlice
    /\ ret' = 0
    /\ UNCHANGED mainVars
    /\ UNCHANGED <<re, schema, err, rec, records>>

CallShouldFlush ==
    /\ UNCHANGED twoVars
    /\ ~panicked
    /\ ~w.isNil
    /\ ret' = ShouldFlush(w)
    /\ prevRows' = w.rowsInBatch
    /\ lastOp' = "ShouldFlush"
    /\ UNCHANGED mainVars
    /\ UNCHANGED <<re, schema, err, w, line, vals, arg, argParsed, rec,
                   records, nAppends, wellShaped, appended, panicked>>

CallRows ==
    /\ UNCHANGED twoVars
    /\ ~panicked
    /\ ~w.isNil
    /\ ret' = Rows(w)
    /\ prevRows' = w.rowsInBatch
    /\ lastOp' = "Rows"
    /\ UNCHANGED mainVars
    /\ UNCHANGED <<re, schema, err, w, line, vals, arg, argParsed, rec,
                   records, nAppends, wellShaped, appended, panicked>>

\* CallFlush on a writer that hands out one Record object again and again:
\* the Records the caller already holds show the new batch.
CallFlush_ReusesRecord ==
    /\ UNCHANGED twoVars
    /\ ~panicked
    /\ ~w.isNil
    /\ Len(records) < MaxFlushes
    /\ LET r == Flush(w)
       IN  /\ w' = r.w
           /\ rec' = r.rec
           /\ panicked' = r.panic
           /\ records' = IF r.panic THEN records
                         ELSE [i \in 1..(Len(records) + 1) |-> r.rec]
    /\ prevRows' = w.rowsInBatch
    /\ lastOp' = "Flush"
    /\ ret' = 0
    /\ UNCHANGED mainVars
    /\ UNCHANGED <<re, schema, err, line, vals, arg, argParsed, nAppends,
                   wellShaped, appended>>

CallFlush ==
    /\ UNCHANGED twoVars
    /\ ~panicked
    /\ ~w.isNil
    /\ Len(records) < MaxFlushes
    /\ LET r == Flush(w)
       IN  /\ w' = r.w
           /\ rec' = r.rec
           /\ panicked' = r.panic
           /\ records' = IF r.panic THEN records ELSE Append(records, r.rec)
    /\ prevRows' = w.rowsInBatch
    /\ lastOp' = "Flush"
    /\ ret' = 0
    /\ UNCHANGED mainVars
    /\ UNCHANGED <<re, schema, err, line, vals, arg, argParsed, nAppends,
                   wellShaped, appended>>

Next ==
    \/ CallExtractSchema
    \/ CallNewArrowWriter
    \/ CallParseLine
    \/ CallAppend
    \/ CallShouldFlush
    \/ CallRows
    \/ CallFlush

Spec == Init /\ [][Next]_vars

\* ------------------------------- the pure functions on every bounded input
InitPure ==
    /\ re \in Patterns
    /\ line \in Lines
    /\ InitLib
    /\ InitNoMain
    /\ InitNoTwo

PureParseLine ==
    /\ UNCHANGED twoVars
    /\ lastOp # "ParseLine"
    /\ vals' = ParseLine(line, re)
    /\ lastOp' = "ParseLine"
    /\ UNCHANGED mainVars
    /\ UNCHANGED <<re, schema, err, w, line, arg, argParsed, rec, records,
                   ret, prevRows, nAppends, wellShaped, appended, panicked>>

\* The line as a value of the type argument T: text for the string kinds,
\* bytes for the byte kinds.
LineAs(T, s) ==
    IF T \in {"string", "named string"} THEN s ELSE StringToBytes(s)

\* ExtractValues[T](T(line), re), after ParseLine was called on the line.
PureExtractValues ==
    /\ UNCHANGED twoVars
    /\ lastOp = "ParseLine"
    /\ \E T \in TypeArgs :
          ret' = [T |-> T, out |-> ExtractValues(T, LineAs(T, line), re)]
    /\ lastOp' = "ExtractValues"
    /\ UNCHANGED mainVars
    /\ UNCHANGED <<re, schema, err, w, line, vals, arg, argParsed, rec,
                   records, prevRows, nAppends, wellShaped, appended,
                   panicked>>

NextPure ==
    \/ CallExtractSchema
    \/ PureParseLine
    \/ PureExtractValues

SpecPure == InitPure /\ [][NextPure]_vars

\* ------------------------------------------------- cmd/carve: func main()
\* The --pattern argument: absent (""), not a regular expression
\* ("[invalid"), or the source of one of the patterns.
NoPattern == [given |-> FALSE, compiles |-> FALSE, re |-> NilRe]

BadPattern == [given |-> TRUE, compiles |-> FALSE, re |-> NilRe]

PatternArgs ==
    {NoPattern, BadPattern} \cup
    {[given |-> TRUE, compiles |-> TRUE, re |-> p] : p \in Patterns \ {NilRe}}

FlagSets ==
    [showVersion : BOOLEAN,
     pattern     : PatternArgs,
     output      : BOOLEAN,        \* --output was given
     schemaOnly  : BOOLEAN,
     verbose     : BOOLEAN,
     benchReport : BOOLEAN,
     flush       : -1..MaxK,       \* --flush-interval
     maxRows     : 0..MaxLimit]    \* --max-rows

InitMain ==
    /\ re = NilRe
    /\ line = <<>>
    /\ InitLib
    /\ pc = "start"
    /\ flags \in FlagSets
    /\ lineNum = 0
    /\ input = <<>>
    /\ totalRows = 0
    /\ out = <<>>
    /\ released = <<>>
    /\ log = <<>>
    /\ stdout = <<>>
    /\ exit = ""
    /\ outCreated = FALSE
    /\ InitNoTwo

\* The program runs until it returns or exits.
Running(at) == pc = at /\ exit = ""

\* os.Exit(1), log.Fatalf, or a panic: the process ends here.
Die(why) == pc' = "done" /\ exit' = why

\* MainFlags without the check that --output was given.
MainFlags_OutputNotRequired ==
    /\ UNCHANGED twoVars
    /\ Running("start")
    /\ IF flags.showVersion
       THEN /\ stdout' = Append(stdout, <<"carve", "0.2.0">>)
            /\ pc' = "done" /\ exit' = "ok"
       ELSE IF ~flags.pattern.given
       THEN /\ Die("Error: --pattern flag is required")
            /\ UNCHANGED stdout
       ELSE /\ pc' = "compile"
            /\ UNCHANGED <<stdout, exit>>
    /\ UNCHANGED libVars
    /\ UNCHANGED <<flags, input, lineNum, totalRows, out, released, log,
                   outCreated>>

\* main, from flag.Parse() to the check of --output.
MainFlags ==
    /\ UNCHANGED twoVars
    /\ Running("start")
    /\ IF flags.showVersion
       THEN /\ stdout' = Append(stdout, <<"carve", "0.2.0">>)
            /\ pc' = "done" /\ exit' = "ok"
       ELSE IF ~flags.pattern.given
       THEN /\ Die("Error: --pattern flag is required")
            /\ UNCHANGED stdout
       ELSE IF ~flags.output /\ ~flags.schemaOnly
       THEN /\ Die("Error: --output flag is required")
            /\ UNCHANGED stdout
       ELSE /\ pc' = "compile"
            /\ UNCHANGED <<stdout, exit>>
    /\ UNCHANGED libVars
    /\ UNCHANGED <<flags, input, lineNum, totalRows, out, released, log, outCreated>>

\* regexp.Compile(*pattern)
MainCompile ==
    /\ UNCHANGED twoVars
    /\ Running("compile")
    /\ IF ~flags.pattern.compiles
       THEN /\ Die("failed to compile pattern")
            /\ UNCHANGED re
       ELSE /\ re' = flags.pattern.re
            /\ pc' = "schema"
            /\ UNCHANGED exit
    /\ UNCHANGED <<schema, err, w, line, vals, arg, argParsed, rec, records,
                   ret, lastOp, prevRows, nAppends, wellShaped, appended, panicked>>
    /\ UNCHANGED <<flags, input, lineNum, totalRows, out, released, log, stdout,
                   outCreated>>

\* printSchema numbering the fields from one.
printSchema_OneBased(sch) ==
    <<Len(sch.fields)>> \o
    [i \in 1..Len(sch.fields) |->
        <<i, sch.fields[i].Name, sch.fields[i].Type>>]

\* printSchema: the field count, then index, name and type of every field.
printSchema(sch) ==
    <<Len(sch.fields)>> \o
    [i \in 1..Len(sch.fields) |->
        <<i - 1, sch.fields[i].Name, sch.fields[i].Type>>]

\* carve.ExtractSchema(re) and the --schema exit.
MainExtractSchema ==
    /\ UNCHANGED twoVars
    /\ Running("schema")
    /\ LET r == ExtractSchema(re)
       IN  /\ schema' = r.schema
           /\ err' = r.err
           /\ IF r.err # ""
              THEN /\ Die("schema error")
                   /\ UNCHANGED stdout
              ELSE IF flags.schemaOnly
              THEN /\ stdout' = Append(stdout, printSchema(r.schema))
                   /\ pc' = "done" /\ exit' = "ok"
              ELSE /\ pc' = "writer"
                   /\ UNCHANGED <<stdout, exit>>
    /\ UNCHANGED <<re, w, line, vals, arg, argParsed, rec, records, ret,
                   lastOp, prevRows, nAppends, wellShaped, appended, panicked>>
    /\ UNCHANGED <<flags, input, lineNum, totalRows, out, released, log, outCreated>>

\* carve.NewArrowWriter(schema, mem, *flush)
MainNewArrowWriter ==
    /\ UNCHANGED twoVars
    /\ Running("writer")
    /\ w' = NewArrowWriter(schema, flags.flush)
    /\ pc' = "open"
    /\ UNCHANGED <<re, schema, err, line, vals, arg, argParsed, rec, records,
                   ret, lastOp, prevRows, nAppends, wellShaped, appended, panicked>>
    /\ UNCHANGED <<flags, input, lineNum, totalRows, out, released, log, stdout,
                   exit, outCreated>>

\* os.Open(*input), os.Create(*output), ipc.NewFileWriter: each may fail.
MainOpenFiles ==
    /\ UNCHANGED twoVars
    /\ Running("open")
    /\ \E outcome \in {"ok", "failed to open input", "failed to create output",
                       "failed to create IPC writer"} :
          /\ outCreated' = (outcome \in {"ok", "failed to create IPC writer"})
          /\ IF outcome = "ok"
             THEN pc' = "scan" /\ UNCHANGED exit
             ELSE Die(outcome)
    /\ UNCHANGED libVars
    /\ UNCHANGED <<flags, input, lineNum, totalRows, out, released, log, stdout>>

\* MainScan that stops only once the row limit has been exceeded.
MainScan_LimitOffByOne ==
    /\ UNCHANGED twoVars
    /\ Running("scan")
    /\ \/ /\ lineNum < MaxLines
          /\ \E l \in InputLines :
                /\ line' = l
                /\ input' = Append(input, l)
          /\ lineNum' = lineNum + 1
          /\ IF flags.maxRows > 0 /\ totalRows > flags.maxRows
             THEN /\ log' = IF flags.verbose
                            THEN Append(log, <<"reached max-rows limit", flags.maxRows>>)
                            ELSE log
                  /\ pc' = "scanned"
             ELSE /\ pc' = "parse"
                  /\ UNCHANGED log
       \/ /\ pc' = "scanned"
          /\ UNCHANGED <<line, lineNum, input, log>>
    /\ UNCHANGED <<re, schema, err, w, vals, arg, argParsed, rec, records,
                   ret, lastOp, prevRows, nAppends, wellShaped, appended,
                   panicked>>
    /\ UNCHANGED <<flags, totalRows, out, released, stdout, exit, outCreated>>

\* for scanner.Scan() { lineNum++; line := scanner.Text(); max-rows check
MainScan ==
    /\ UNCHANGED twoVars
    /\ Running("scan")
    /\ \/ \* a line is read
          /\ lineNum < MaxLines
          /\ \E l \in InputLines :
                /\ line' = l
                /\ input' = Append(input, l)
          /\ lineNum' = lineNum + 1
          /\ IF flags.maxRows > 0 /\ totalRows >= flags.maxRows
             THEN /\ log' = IF flags.verbose
                            THEN Append(log, <<"reached max-rows limit", flags.maxRows>>)
                            ELSE log
                  /\ pc' = "scanned"
             ELSE /\ pc' = "parse"
                  /\ UNCHANGED log
       \/ \* end of input, or a read error: Scan returns false
          /\ pc' = "scanned"
          /\ UNCHANGED <<line, lineNum, input, log>>
    /\ UNCHANGED <<re, schema, err, w, vals, arg, argParsed, rec, records,
                   ret, lastOp, prevRows, nAppends, wellShaped, appended, panicked>>
    /\ UNCHANGED <<flags, totalRows, out, released, stdout, exit, outCreated>>

\* MainParseLine that counts the warned line from zero.
MainParseLine_ZeroBased ==
    /\ UNCHANGED twoVars
    /\ Running("parse")
    /\ LET v == ParseLine(line, re)
       IN  /\ vals' = v
           /\ IF v.isNil
              THEN /\ log' = IF flags.verbose
                             THEN Append(log, <<"[warn] line", lineNum - 1>>)
                             ELSE log
                   /\ pc' = "scan"
              ELSE /\ pc' = "append"
                   /\ UNCHANGED log
    /\ UNCHANGED <<re, schema, err, w, line, arg, argParsed, rec, records,
                   ret, lastOp, prevRows, nAppends, wellShaped, appended,
                   panicked>>
    /\ UNCHANGED <<flags, input, lineNum, totalRows, out, released, stdout,
                   exit, outCreated>>

\* vals := carve.ParseLine(line, re); a nil result skips the line.
MainParseLine ==
    /\ UNCHANGED twoVars
    /\ Running("parse")
    /\ LET v == ParseLine(line, re)
       IN  /\ vals' = v
           /\ IF v.isNil
              THEN /\ log' = IF flags.verbose
                             THEN Append(log, <<"[warn] line", lineNum>>)
                             ELSE log
                   /\ pc' = "scan"
              ELSE /\ pc' = "append"
                   /\ UNCHANGED log
    /\ UNCHANGED <<re, schema, err, w, line, arg, argParsed, rec, records,
                   ret, lastOp, prevRows, nAppends, wellShaped, appended, panicked>>
    /\ UNCHANGED <<flags, input, lineNum, totalRows, out, released, stdout, exit,
                   outCreated>>

\* writer.Append(vals); totalRows++
MainAppend ==
    /\ UNCHANGED twoVars
    /\ Running("append")
    /\ LET r == ArrowWriterAppend(w, vals.elems)
       IN  /\ w' = r.w
           /\ panicked' = r.panic
           /\ IF r.panic
              THEN /\ Die("panic: index out of range")
                   /\ UNCHANGED <<totalRows, nAppends, appended>>
              ELSE /\ totalRows' = totalRows + 1
                   /\ nAppends' = nAppends + 1
                   /\ appended' = Append(appended, vals.elems)
                   /\ pc' = "check"
                   /\ UNCHANGED exit
    /\ arg' = vals.elems
    /\ argParsed' = TRUE
    /\ wellShaped' = (wellShaped /\ Len(vals.elems) = Len(w.builders))
    /\ prevRows' = Rows(w)
    /\ UNCHANGED <<re, schema, err, line, vals, rec, records, ret, lastOp>>
    /\ UNCHANGED <<flags, input, lineNum, out, released, log, stdout, outCreated>>

\* MainShouldFlush of a loop that leaves every flush to the end of input.
MainShouldFlush_FlushOnlyAtEnd ==
    /\ UNCHANGED twoVars
    /\ Running("check")
    /\ ret' = ShouldFlush(w)
    /\ pc' = "scan"
    /\ UNCHANGED <<re, schema, err, w, line, vals, arg, argParsed, rec,
                   records, lastOp, prevRows, nAppends, wellShaped, appended,
                   panicked>>
    /\ UNCHANGED <<flags, input, lineNum, totalRows, out, released, log,
                   stdout, exit, outCreated>>

\* if writer.ShouldFlush() {
MainShouldFlush ==
    /\ UNCHANGED twoVars
    /\ Running("check")
    /\ ret' = ShouldFlush(w)
    /\ pc' = IF ShouldFlush(w) THEN "flush" ELSE "scan"
    /\ UNCHANGED <<re, schema, err, w, line, vals, arg, argParsed, rec,
                   records, lastOp, prevRows, nAppends, wellShaped, appended, panicked>>
    /\ UNCHANGED <<flags, input, lineNum, totalRows, out, released, log, stdout,
                   exit, outCreated>>

\* rec := writer.Flush(), at either place main calls it.
DoFlush(then) ==
    /\ UNCHANGED twoVars
    /\ LET r == Flush(w)
       IN  /\ w' = r.w
           /\ rec' = r.rec
           /\ panicked' = r.panic
           /\ IF r.panic
              THEN /\ Die("panic: mismatch number of rows")
                   /\ UNCHANGED <<records, released>>
              ELSE /\ records' = Append(records, r.rec)
                   /\ released' = Append(released, 0)
                   /\ pc' = then
                   /\ UNCHANGED exit
    /\ prevRows' = Rows(w)
    /\ UNCHANGED <<re, schema, err, line, vals, arg, argParsed, ret, lastOp,
                   nAppends, wellShaped, appended>>
    /\ UNCHANGED <<flags, input, lineNum, totalRows, out, log, stdout, outCreated>>

\* rec.Release() on the Record Flush returned last.
ReleaseRec == [released EXCEPT ![Len(released)] = @ + 1]

\* DoWrite that ends the run on a write error without releasing the Record.
DoWrite_LeaksOnError(then) ==
    /\ UNCHANGED twoVars
    /\ \/ /\ out' = Append(out, rec)
          /\ pc' = then
          /\ UNCHANGED <<released, exit>>
       \/ /\ Die("write error")
          /\ UNCHANGED <<out, released>>
    /\ UNCHANGED libVars
    /\ UNCHANGED <<flags, input, lineNum, totalRows, log, stdout, outCreated>>

\* ipcWriter.Write(rec): on an error the Record is released and the run ends.
DoWrite(then) ==
    /\ UNCHANGED twoVars
    /\ \/ /\ out' = Append(out, rec)
          /\ pc' = then
          /\ UNCHANGED <<released, exit>>
       \/ /\ released' = ReleaseRec
          /\ Die("write error")
          /\ UNCHANGED out
    /\ UNCHANGED libVars
    /\ UNCHANGED <<flags, input, lineNum, totalRows, log, stdout, outCreated>>

\* After a successful write: the --bench-report line, which reads the
\* Record's row count, then rec.Release().
DoRelease(what, then) ==
    /\ UNCHANGED twoVars
    /\ log' = IF flags.benchReport
              THEN Append(log, <<what, NumRows(rec)>>)
              ELSE log
    /\ released' = ReleaseRec
    /\ pc' = then
    /\ UNCHANGED libVars
    /\ UNCHANGED <<flags, input, lineNum, totalRows, out, stdout, exit,
                   outCreated>>

MainFlush == Running("flush") /\ DoFlush("write")

MainWrite == Running("write") /\ DoWrite("release")

MainRelease == Running("release") /\ DoRelease("[bench] batch", "scan")

\* MainAfterLoop that flushes at the end whether or not rows are buffered.
MainAfterLoop_AlwaysFlushes ==
    /\ UNCHANGED twoVars
    /\ Running("scanned")
    /\ \/ /\ Die("scan error")
          /\ UNCHANGED ret
       \/ /\ ret' = Rows(w)
          /\ pc' = "finalFlush"
          /\ UNCHANGED exit
    /\ UNCHANGED <<re, schema, err, w, line, vals, arg, argParsed, rec,
                   records, lastOp, prevRows, nAppends, wellShaped, appended,
                   panicked>>
    /\ UNCHANGED <<flags, input, lineNum, totalRows, out, released, log,
                   stdout, outCreated>>

\* MainAfterLoop without the final flush of the rows still buffered.
MainAfterLoop_NoFinalFlush ==
    /\ UNCHANGED twoVars
    /\ Running("scanned")
    /\ \/ /\ Die("scan error")
          /\ UNCHANGED ret
       \/ /\ ret' = Rows(w)
          /\ pc' = "summary"
          /\ UNCHANGED exit
    /\ UNCHANGED <<re, schema, err, w, line, vals, arg, argParsed, rec,
                   records, lastOp, prevRows, nAppends, wellShaped, appended,
                   panicked>>
    /\ UNCHANGED <<flags, input, lineNum, totalRows, out, released, log,
                   stdout, outCreated>>

\* scanner.Err() after the loop, then: if writer.Rows() > 0 {
MainAfterLoop ==
    /\ UNCHANGED twoVars
    /\ Running("scanned")
    /\ \/ /\ Die("scan error")
          /\ UNCHANGED ret
       \/ /\ ret' = Rows(w)
          /\ pc' = IF Rows(w) > 0 THEN "finalFlush" ELSE "summary"
          /\ UNCHANGED exit
    /\ UNCHANGED <<re, schema, err, w, line, vals, arg, argParsed, rec,
                   records, lastOp, prevRows, nAppends, wellShaped, appended, panicked>>
    /\ UNCHANGED <<flags, input, lineNum, totalRows, out, released, log, stdout,
                   outCreated>>

MainFinalFlush == Running("finalFlush") /\ DoFlush("finalWrite")

MainFinalWrite == Running("finalWrite") /\ DoWrite("finalRelease")

MainFinalRelease ==
    Running("finalRelease") /\ DoRelease("[bench] final batch", "summary")

\* The verbose summary, then main returns.
MainSummary ==
    /\ UNCHANGED twoVars
    /\ Running("summary")
    /\ stdout' = IF flags.verbose
                 THEN Append(stdout, <<"processed", lineNum, "wrote", totalRows>>)
                 ELSE stdout
    /\ pc' = "done"
    /\ exit' = "ok"
    /\ UNCHANGED libVars
    /\ UNCHANGED <<flags, input, lineNum, totalRows, out, released, log, outCreated>>

NextMain ==
    \/ MainFlags
    \/ MainCompile
    \/ MainExtractSchema
    \/ MainNewArrowWriter
    \/ MainOpenFiles
    \/ MainScan
    \/ MainParseLine
    \/ MainAppend
    \/ MainShouldFlush
    \/ MainFlush
    \/ MainWrite
    \/ MainRelease
    \/ MainAfterLoop
    \/ MainFinalFlush
    \/ MainFinalWrite
    \/ MainFinalRelease
    \/ MainSummary

SpecMain == InitMain /\ [][NextMain]_vars

\* ------------------------------------------- two writers on one allocator
\* What the allocator hands out is kept by address: heap[a] is the builder
\* or array at address a, with the values it holds and its reference count.
\* A writer names its builders, and a Record its columns, by address.
Object(kind, vs, refs) == [kind |-> kind, vals |-> vs, refs |-> refs]

Retain(o) == [o EXCEPT !.refs = @ + 1]

Release(o) == [o EXCEPT !.refs = @ - 1]

\* NewBuilders that takes live builders of the allocator when it has enough.
NewBuilders_Pooled(h, n) ==
    LET live == SelectSeq([a \in 1..Len(h) |-> a],
                          LAMBDA a : h[a].kind = "builder" /\ h[a].refs > 0)
    IN  IF Len(live) >= n
        THEN [heap |-> h, addrs |-> SubSeq(live, 1, n)]
        ELSE [heap  |-> h \o [i \in 1..n |-> Object("builder", NewStringBuilder, 1)],
              addrs |-> [i \in 1..n |-> Len(h) + i]]

\* builders[i] = array.NewStringBuilder(mem), n times: n new objects.
NewBuilders(h, n) ==
    [heap  |-> h \o [i \in 1..n |-> Object("builder", NewStringBuilder, 1)],
     addrs |-> [i \in 1..n |-> Len(h) + i]]

\* NewArrowWriter on the heap h.
NewArrowWriterAt(h, sch, maxRows) ==
    LET nb == NewBuilders(h, Len(sch.fields))
    IN  [heap |-> nb.heap,
         w    |-> [NewArrowWriter(sch, maxRows) EXCEPT !.builders = nb.addrs]]

\* The writer with the values of its builders in place of their addresses.
Load(h, wh) ==
    [wh EXCEPT !.builders = [i \in 1..Len(wh.builders) |-> h[wh.builders[i]].vals]]

\* The heap after the builders at addrs took the values bs.
Store(h, addrs, bs) ==
    [a \in 1..Len(h) |->
        IF \E i \in 1..Len(addrs) : addrs[i] = a
        THEN [h[a] EXCEPT !.vals =
                 bs[CHOOSE i \in 1..Len(addrs) : addrs[i] = a]]
        ELSE h[a]]

\* Append on the heap h: the values go to the objects the writer names.
AppendAt(h, wh, values) ==
    LET r == ArrowWriterAppend(Load(h, wh), values)
    IN  [heap  |-> Store(h, wh.builders, r.w.builders),
         w     |-> [wh EXCEPT !.rowsInBatch = r.w.rowsInBatch],
         panic |-> r.panic]

\* Flush that leaves out the loop releasing the column arrays.
FlushAt_ArraysNotReleased(h, wh) ==
    LET N  == Len(wh.builders)
        vw == Load(h, wh)
        r  == Flush(vw)
        old == [a \in 1..Len(h) |->
                   IF \E i \in 1..N : wh.builders[i] = a
                   THEN Release([h[a] EXCEPT !.vals = <<>>])
                   ELSE h[a]]
        arrays == [i \in 1..N |->
                      IF r.panic
                      THEN Object("array", vw.builders[i], 1)
                      ELSE Retain(Object("array", r.rec.cols[i], 1))]
        fresh == [i \in 1..N |-> Object("builder", r.w.builders[i], 1)]
    IN  [heap  |-> old \o arrays \o fresh,
         w     |-> [wh EXCEPT !.builders = [i \in 1..N |-> Len(h) + N + i],
                              !.rowsInBatch = r.w.rowsInBatch],
         rec   |-> IF r.panic THEN NoRecord
                   ELSE [isNil |-> FALSE, schema |-> r.rec.schema,
                         cols |-> [i \in 1..N |-> Len(h) + i],
                         nrows |-> r.rec.nrows, refs |-> 1],
         panic |-> r.panic]

\* Flush on the heap h.  For every builder b: b.NewArray() makes an array
\* of b's values with one reference and leaves b empty, b.Release() drops
\* b's reference, and a new builder takes b's place.  array.NewRecord
\* retains every array, unless it panics on a column shorter than the row
\* count; then every array is released once.
FlushAt(h, wh) ==
    LET N  == Len(wh.builders)
        vw == Load(h, wh)
        r  == Flush(vw)
        old == [a \in 1..Len(h) |->
                   IF \E i \in 1..N : wh.builders[i] = a
                   THEN Release([h[a] EXCEPT !.vals = <<>>])
                   ELSE h[a]]
        arrays == [i \in 1..N |->
                      IF r.panic
                      THEN Object("array", vw.builders[i], 1)
                      ELSE Release(Retain(Object("array", r.rec.cols[i], 1)))]
        fresh == [i \in 1..N |-> Object("builder", r.w.builders[i], 1)]
    IN  [heap  |-> old \o arrays \o fresh,
         w     |-> [wh EXCEPT !.builders = [i \in 1..N |-> Len(h) + N + i],
                              !.rowsInBatch = r.w.rowsInBatch],
         rec   |-> IF r.panic THEN NoRecord
                   ELSE [isNil |-> FALSE, schema |-> r.rec.schema,
                         cols |-> [i \in 1..N |-> Len(h) + i],
                         nrows |-> r.rec.nrows, refs |-> 1],
         panic |-> r.panic]

\* rec.Release(): the Record drops a reference, and with its last one a
\* reference of each of its columns.
ReleaseRecordAt(h, rh) ==
    [heap |-> IF rh.refs = 1
              THEN [a \in 1..Len(h) |->
                       IF \E i \in 1..Len(rh.cols) : rh.cols[i] = a
                       THEN Release(h[a]) ELSE h[a]]
              ELSE h,
     rec  |-> [rh EXCEPT !.refs = @ - 1]]

\* The Record with the values of its columns in place of their addresses.
RecordAt(h, rh) ==
    [isNil |-> FALSE, schema |-> rh.schema,
     cols  |-> [i \in 1..Len(rh.cols) |-> h[rh.cols[i]].vals],
     nrows |-> rh.nrows]

\* Both writers are built from the schema of the pattern PatAB, and take
\* rows of one value per field: the first writer the row of the line
\* "a-1", the second a row of its own, so that a value in the wrong writer
\* shows.
TwoSchema == ExtractSchema(PatAB).schema

TwoRows == <<ParseLine(<<"a", "-", "1">>, PatAB).elems, <<"-", "-">>>>

InitTwo ==
    /\ re = PatAB
    /\ line = <<>>
    /\ InitLib
    /\ InitNoMain
    /\ InitNoTwo

\* w := NewArrowWriter(schema, mem, k), for the first and the second writer.
TwoNewArrowWriter ==
    /\ Len(ws) < 2
    /\ \E k \in {1, MaxK} :
          LET r == NewArrowWriterAt(heap, TwoSchema, k)
          IN  /\ heap' = r.heap
              /\ ws' = Append(ws, r.w)
    /\ who' = Len(ws) + 1
    /\ lastOp' = "NewArrowWriter"
    /\ UNCHANGED held
    /\ UNCHANGED mainVars
    /\ UNCHANGED <<re, schema, err, w, line, vals, arg, argParsed, rec,
                   records, ret, prevRows, nAppends, wellShaped, appended,
                   panicked>>

\* ws[n].Append(row)
TwoAppend ==
    /\ nAppends < MaxAppends
    /\ \E n \in 1..Len(ws) :
          LET r == AppendAt(heap, ws[n], TwoRows[n])
          IN  /\ heap' = r.heap
              /\ ws' = [ws EXCEPT ![n] = r.w]
              /\ who' = n
    /\ nAppends' = nAppends + 1
    /\ lastOp' = "Append"
    /\ UNCHANGED held
    /\ UNCHANGED mainVars
    /\ UNCHANGED <<re, schema, err, w, line, vals, arg, argParsed, rec,
                   records, ret, prevRows, wellShaped, appended, panicked>>

\* rec := ws[n].Flush(); the caller holds the Record.
TwoFlush ==
    /\ Len(held) < MaxFlushes
    /\ \E n \in 1..Len(ws) :
          LET r == FlushAt(heap, ws[n])
          IN  /\ heap' = r.heap
              /\ ws' = [ws EXCEPT ![n] = r.w]
              /\ held' = Append(held, r.rec)
              /\ who' = n
    /\ lastOp' = "Flush"
    /\ UNCHANGED mainVars
    /\ UNCHANGED <<re, schema, err, w, line, vals, arg, argParsed, rec,
                   records, ret, prevRows, nAppends, wellShaped, appended,
                   panicked>>

\* rec.Release() by the caller, on a Record it still holds.
TwoRelease ==
    /\ \E j \in 1..Len(held) :
          /\ held[j].refs > 0
          /\ LET r == ReleaseRecordAt(heap, held[j])
             IN  /\ heap' = r.heap
                 /\ held' = [held EXCEPT ![j] = r.rec]
    /\ who' = 0
    /\ lastOp' = "Release"
    /\ UNCHANGED ws
    /\ UNCHANGED mainVars
    /\ UNCHANGED <<re, schema, err, w, line, vals, arg, argParsed, rec,
                   records, ret, prevRows, nAppends, wellShaped, appended,
                   panicked>>

NextTwo ==
    \/ TwoNewArrowWriter
    \/ TwoAppend
    \/ TwoFlush
    \/ TwoRelease

SpecTwo == InitTwo /\ [][NextTwo]_vars

\* ------------------------------------------------------------------ claims
NumFields == Len(schema.fields)

\* C1: a Flush after well-shaped Appends returns a Record with one column
\* per schema field, every column as long as Rows() was just before the
\* call, a row count equal to that value, and leaves Rows() = 0.
C1_FlushReturnsBufferedRows ==
    (lastOp = "Flush" /\ wellShaped) =>
        /\ ~panicked
        /\ ~rec.isNil
        /\ NumCols(rec) = NumFields
        /\ \A i \in 1..NumCols(rec) : Len(rec.cols[i]) = prevRows
        /\ NumRows(rec) = prevRows
        /\ Rows(w) = 0

C1_Witness ==
    /\ lastOp = "Flush" /\ wellShaped /\ ~rec.isNil
    /\ prevRows >= 2 /\ NumFields = 2

\* C2: with a positive maximum k, a run of the ingestion loop that appended
\* T rows and returned has emitted ceil(T / k) Records: T \div k of k rows
\* and then, when k does not divide T, one of T mod k rows.
C2_BatchSizes ==
    (pc = "done" /\ exit = "ok" /\ ~w.isNil /\ w.maxRows > 0) =>
        LET k == w.maxRows
            T == nAppends
        IN  /\ totalRows = T
            /\ Len(out) = (T + k - 1) \div k
            /\ \A i \in 1..Len(out) :
                  NumRows(out[i]) = IF i <= T \div k THEN k ELSE T % k

C2_Witness ==
    /\ pc = "done" /\ exit = "ok" /\ ~w.isNil
    /\ w.maxRows = 2 /\ nAppends = 3
    /\ Len(out) = 2 /\ NumRows(out[1]) = 2 /\ NumRows(out[2]) = 1

NamedIdx == SelectSeq([i \in 1..Len(re.groups) |-> i],
                      LAMBDA i : re.groups[i].name # "")

\* C4: for a pattern ExtractSchema accepts and a line that matches, the row
\* ParseLine returns has one value per schema field, value i being the
\* capture of the group that produced field i.
C4_RowHasOneValuePerField ==
    (~schema.isNil /\ ~vals.isNil) =>
        /\ Len(vals.elems) = NumFields
        /\ \A i \in 1..NumFields :
              vals.elems[i] =
                 FindStringSubmatch(re, line).elems[NamedIdx[i]]

\* C5: Append of the row ParseLine returned for the writer's pattern does
\* not fault, adds value i to builder i and raises Rows() by one.
C5_AppendOfParsedRowSucceeds ==
    (lastOp = "Append" /\ argParsed) =>
        /\ ~panicked
        /\ Rows(w) = prevRows + 1
        /\ Len(arg) = NumFields
        /\ \A i \in 1..NumFields :
              /\ Len(w.builders[i]) >= 1
              /\ w.builders[i][Len(w.builders[i])] = arg[i]

\* C6: the schema's fields are the pattern's named groups in pattern order,
\* all of the string type, with no field for an unnamed group; the pattern
\* (?P<a>\w+)-(?P<b>\d+) gives exactly the fields a, b.
C6_SchemaIsNamedGroupsInOrder ==
    ~schema.isNil =>
        /\ [i \in 1..NumFields |-> schema.fields[i].Name]
              = SelectSeq(SubexpNames(re), LAMBDA n : n # "")
        /\ \A i \in 1..NumFields : schema.fields[i].Type = "utf8"
        /\ re = PatAB =>
              schema.fields = <<[Name |-> "a", Type |-> "utf8"],
                                [Name |-> "b", Type |-> "utf8"]>>

C6_Witness ==
    /\ ~schema.isNil /\ re = PatMixed
    /\ schema.fields = <<[Name |-> "name", Type |-> "utf8"],
                         [Name |-> "value", Type |-> "utf8"]>>

\* C7: ExtractSchema returns an error, and no schema, exactly when the
\* pattern has no named group; a schema it returns has at least one field.
C7_ErrorIffNoNamedGroup ==
    lastOp = "ExtractSchema" =>
        /\ err # "" <=> (\A i \in 1..Len(re.groups) : re.groups[i].name = "")
        /\ err # "" => schema.isNil
        /\ err = "" => (~schema.isNil /\ NumFields >= 1)

C7_Witness ==
    /\ lastOp = "ExtractSchema" /\ re = PatUnnamed
    /\ err = ErrNoNamedGroups /\ schema.isNil

\* The texts of a class: \w+, \w*, \d+, \d*, (\d+)?.
InLanguage(cls, t) ==
    /\ \A i \in 1..Len(t) :
          IF cls \in {"w+", "w*"} THEN t[i] \in {"a", "1"} ELSE t[i] = "1"
    /\ cls \in {"w+", "d+"} => Len(t) >= 1

\* The line has a substring of the pattern's form: one text per group, each
\* in its group's class, joined by "-".  cut[i] is where group i starts and
\* cut[i + 1] - 1 where the "-" after it stands.
LineMatches(gs, s) ==
    \E cut \in [1..(Len(gs) + 1) -> 1..(Len(s) + 2)] :
        \A i \in 1..Len(gs) :
            /\ cut[i] < cut[i + 1]
            /\ i < Len(gs) => cut[i + 1] - 1 <= Len(s)
            /\ InLanguage(gs[i].cls, SubSeq(s, cut[i], cut[i + 1] - 2))
            /\ i < Len(gs) => s[cut[i + 1] - 1] = "-"

\* C8: ParseLine returns nil exactly when the line does not match; when it
\* matches, a group with a zero-length capture, or one that took no part,
\* has the empty string as its value in a non-nil row.
C8_NilIffNoMatch ==
    (lastOp = "ParseLine" /\ ~re.isNil) =>
        /\ vals.isNil <=> ~LineMatches(re.groups, line)
        /\ ~vals.isNil =>
              LET loc == FindSubmatchIndex(re, StringToBytes(line)).loc
              IN  /\ Len(vals.elems) = Len(re.groups)
                  /\ \A i \in 1..Len(loc) :
                        loc[i][1] = loc[i][2] => vals.elems[i] = <<>>
        /\ (re = PatAB /\ line = <<"a", "-", "1">>) =>
              vals = Slice(<< <<"a">>, <<"1">> >>)
        /\ (re = PatAB /\ line = <<"a", "a">>) => vals.isNil

C8_Witness ==
    /\ lastOp = "ParseLine" /\ re = PatOpt /\ line = <<"-">>
    /\ vals = Slice(<< <<>>, <<>> >>)
    /\ FindSubmatchIndex(re, StringToBytes(line)).loc
          = << <<0, 0>>, <<-1, -1>> >>

\* C9: a Flush with no buffered rows succeeds and returns a Record with no
\* rows and one empty column per field; a Flush right after a Flush leaves
\* the writer as the first one left it, with Rows() = 0 and empty builders.
C9_FlushOfEmptyWriter ==
    [][(lastOp' = "Flush" /\ ~w.isNil /\ Rows(w) = 0) =>
          /\ ~panicked'
          /\ ~rec'.isNil
          /\ NumRows(rec') = 0
          /\ NumCols(rec') = NumFields
          /\ \A i \in 1..NumCols(rec') : rec'.cols[i] = <<>>
          /\ Rows(w') = 0
          /\ \A i \in 1..NumFields : w'.builders[i] = <<>>
          /\ lastOp = "Flush" => w' = w]_vars

C9_Witness ==
    /\ lastOp = "Flush" /\ ~panicked /\ Len(records) >= 2
    /\ NumRows(records[Len(records) - 1]) > 0
    /\ NumRows(records[Len(records)]) = 0
    /\ prevRows = 0 /\ nAppends = NumRows(records[Len(records) - 1])

\* The Records the loop wrote are the Records Flush returned, in the order
\* it returned them.
EmittedInFlushOrder ==
    /\ Len(out) <= Len(records)
    /\ \A i \in 1..Len(out) : out[i] = records[i]

\* C10 as claimed: every Record the ingestion loop receives has at most the
\* configured maximum of rows, whatever the maximum, and the Records are
\* emitted in the order they were finalized.
C10_RecordsWithinMaximum ==
    ~w.isNil =>
        /\ \A i \in 1..Len(records) : NumRows(records[i]) <= w.maxRows
        /\ EmittedInFlushOrder

\* C10 as amended: every Record the ingestion loop receives has at most the
\* configured maximum of rows when that maximum is positive, and the
\* Records are emitted in the order they were finalized.
C10_RecordsWithinPositiveMaximum ==
    ~w.isNil =>
        /\ w.maxRows > 0 =>
              \A i \in 1..Len(records) : NumRows(records[i]) <= w.maxRows
        /\ EmittedInFlushOrder

C10_Witness ==
    /\ pc = "done" /\ exit = "ok" /\ ~w.isNil
    /\ w.maxRows = 1 /\ Len(records) >= 3 /\ out = records
    /\ records[1] # records[2]

\* The sum of the row counts of a sequence of Records.
RECURSIVE SumRows(_)
SumRows(rs) ==
    IF rs = <<>> THEN 0 ELSE NumRows(Head(rs)) + SumRows(Tail(rs))

\* The positions of the input lines that match the pattern.
MatchingLines == {i \in 1..Len(input) : LineMatches(re.groups, input[i])}

\* C11: when a run without a row limit returns, the row counts of the
\* Records written to the output add up to the number of input lines that
\* match the pattern, whatever the flush interval: batching neither loses
\* nor duplicates a matching line.
C11_WrittenRowsAreMatchingLines ==
    (pc = "done" /\ exit = "ok" /\ ~w.isNil /\ flags.maxRows = 0) =>
        SumRows(out) = Cardinality(MatchingLines)

\* Three matching lines and one that does not match, written as a full
\* batch of two rows and a final batch of one.
C11_Witness ==
    /\ pc = "done" /\ exit = "ok" /\ ~w.isNil /\ flags.maxRows = 0
    /\ flags.flush = 2
    /\ Len(input) = 4 /\ Cardinality(MatchingLines) = 3
    /\ Len(out) = 2 /\ NumRows(out[1]) = 2 /\ NumRows(out[2]) = 1

\* C12: a line that does not match is no error: ParseLine returns nil for
\* it, the loop goes on to the next line with the run still alive, and the
\* writer (buffered row count and column values), the Records and the
\* output are as they were before the line.
C12_NonMatchingLineIsSkipped ==
    [][(Running("parse") /\ ~LineMatches(re.groups, line)) =>
          /\ vals'.isNil
          /\ pc' = "scan" /\ exit' = ""
          /\ w' = w
          /\ totalRows' = totalRows
          /\ records' = records /\ out' = out]_vars

\* A line without a match was skipped while a row was buffered.
C12_Witness ==
    /\ Running("scan")
    /\ lineNum = 2 /\ ~LineMatches(re.groups, line) /\ vals.isNil
    /\ Rows(w) = 1

\* Rows() is the number of Append calls completed since the most recent
\* Flush, or since construction: the rows appended less the rows the
\* returned Records took.
RowsCountAppendsSinceFlush ==
    (~w.isNil /\ ~panicked) => Rows(w) = Len(appended) - SumRows(records)

\* C13: Append never flushes by itself: a completed Append returns no
\* Record and adds one to Rows(), so that Rows() is always the number of
\* Append calls since the most recent Flush (or since construction), beyond
\* the configured maximum too.
C13_AppendNeverFlushes ==
    /\ []RowsCountAppendsSinceFlush
    /\ [][(lastOp' = "Append" /\ ~panicked') =>
             /\ Rows(w') = Rows(w) + 1
             /\ records' = records
             /\ rec' = rec]_vars

\* Two Appends after a Flush on a writer whose maximum is one.
C13_Witness ==
    /\ ~w.isNil /\ ~panicked
    /\ lastOp = "Append"
    /\ w.maxRows = 1
    /\ Len(records) = 1
    /\ Rows(w) = 2

\* Every Record but the latest has been released once, the latest at most
\* once, and when the run has ended, however it ended, the latest too.
ReleasedOnce ==
    /\ Len(released) = Len(records)
    /\ \A i \in 1..Len(released) :
          IF i < Len(released) \/ pc = "done"
          THEN released[i] = 1
          ELSE released[i] \in {0, 1}

\* The step reads the Record Flush returned last: it writes it to the
\* output or logs its row count.
UsesRecord ==
    \/ out' # out
    \/ /\ Len(log') = Len(log) + 1
       /\ log'[Len(log')][1] \in {"[bench] batch", "[bench] final batch"}

\* C14: in the ingestion loop every Record Flush returned is released
\* exactly once on every way out of the run, a failed write included, and
\* before the next Flush; a Record is written or read only while it is
\* unreleased.
C14_RecordsReleasedExactlyOnce ==
    /\ []ReleasedOnce
    /\ [][/\ records' # records =>
                \A i \in 1..Len(released) : released[i] = 1
          /\ UsesRecord =>
                /\ released # <<>>
                /\ released[Len(released)] = 0
                /\ rec = records[Len(records)]]_vars

\* A run that wrote and released one Record and died on the write of the
\* second, with both released once.
C14_Witness ==
    /\ pc = "done" /\ exit = "write error"
    /\ flags.benchReport
    /\ Len(records) = 2 /\ Len(out) = 1
    /\ released = <<1, 1>>

\* The command line fails startup validation: no pattern, no output path
\* without --schema, a pattern that does not compile, or one without a
\* named capture group.
StartupInvalid ==
    \/ ~flags.pattern.given
    \/ ~flags.output /\ ~flags.schemaOnly
    \/ ~flags.pattern.compiles
    \/ \A i \in 1..Len(flags.pattern.re.groups) :
          flags.pattern.re.groups[i].name = ""

\* The run never got past validation: no line read, no Append, no writer,
\* no output file; and if it has ended, it ended with a failure status.
FailsBeforeProcessing ==
    /\ pc \in {"start", "compile", "schema", "done"}
    /\ lineNum = 0 /\ input = <<>>
    /\ nAppends = 0 /\ appended = <<>>
    /\ ~outCreated /\ out = <<>>
    /\ pc = "done" => exit \notin {"", "ok"}

\* C15 as claimed: whenever startup validation fails, the run exits with a
\* failure status before any input line is read, before any Append and
\* before the output file is created.
C15_InvalidStartupFails ==
    (pc # "lib" /\ StartupInvalid) => FailsBeforeProcessing

\* C15 as amended: the same, for a command line without --version.
C15_InvalidStartupFailsUnlessVersion ==
    (pc # "lib" /\ StartupInvalid /\ ~flags.showVersion) =>
        FailsBeforeProcessing

\* A pattern that compiles but names no group ended the run at the schema.
C15_Witness ==
    /\ pc = "done" /\ exit = "schema error"
    /\ ~flags.showVersion /\ flags.output /\ ~flags.schemaOnly
    /\ flags.pattern.compiles
    /\ StartupInvalid

\* The pattern was given, compiles and names at least one group.
ValidPattern ==
    /\ flags.pattern.given /\ flags.pattern.compiles
    /\ \E i \in 1..Len(flags.pattern.re.groups) :
          flags.pattern.re.groups[i].name # ""

\* What --schema prints: the number of named groups, then for the k-th of
\* them, in group order, its index k - 1, its name and the string type.
SchemaListing ==
    <<Len(NamedIdx)>> \o
    [k \in 1..Len(NamedIdx) |-> <<k - 1, re.groups[NamedIdx[k]].name, "utf8">>]

\* The run printed the schema and returned without touching input or output.
PrintedSchemaOnly ==
    /\ exit = "ok"
    /\ stdout = <<SchemaListing>>
    /\ lineNum = 0 /\ input = <<>>
    /\ ~outCreated /\ out = <<>>

\* C16 as claimed: a run with --schema and a valid pattern ends having
\* printed the schema and nothing else, successfully, whether or not
\* --output was given, without reading a line or creating the output file.
C16_SchemaFlagPrintsAndExits ==
    (pc = "done" /\ flags.schemaOnly /\ ValidPattern) => PrintedSchemaOnly

\* C16 as amended: the same, for a command line without --version.
C16_SchemaFlagPrintsAndExitsUnlessVersion ==
    (flags.schemaOnly /\ ValidPattern /\ ~flags.showVersion) =>
        /\ pc \in {"start", "compile", "schema", "done"}
        /\ pc = "done" => PrintedSchemaOnly

\* --schema without --output on a pattern whose second group is unnamed:
\* two fields, numbered 0 and 1.
C16_Witness ==
    /\ pc = "done" /\ flags.schemaOnly /\ ValidPattern /\ ~flags.showVersion
    /\ ~flags.output
    /\ Len(re.groups) = 3 /\ Len(NamedIdx) = 2
    /\ PrintedSchemaOnly

\* The rows of a Record: row j holds the j-th value of every column.
RowsOfRecord(r) ==
    [j \in 1..NumRows(r) |-> [i \in 1..NumCols(r) |-> r.cols[i][j]]]

\* The rows of a sequence of Records, one Record after the other.
RECURSIVE RowsOfRecords(_)
RowsOfRecords(rs) ==
    IF rs = <<>> THEN <<>>
    ELSE RowsOfRecord(Head(rs)) \o RowsOfRecords(Tail(rs))

\* The input lines that match the pattern, in input order.
MatchingInput == SelectSeq(input, LAMBDA l : LineMatches(re.groups, l))

\* The number of rows --max-rows m lets through out of n matching lines.
Limited(m, n) == IF m > 0 /\ m < n THEN m ELSE n

\* C17: when a run returns, the rows written to the output are the first
\* min(m, number of matching lines) matching lines in input order for a
\* row limit m > 0, and all matching lines for m = 0.
C17_MaxRowsKeepsFirstMatchingLines ==
    (pc = "done" /\ exit = "ok" /\ ~w.isNil) =>
        LET n == Limited(flags.maxRows, Len(MatchingInput))
        IN  /\ SumRows(out) = n
            /\ RowsOfRecords(out) =
                  [k \in 1..n |-> ParseLine(MatchingInput[k], re).elems]

\* A limit of two on an input that starts with a line that does not match
\* and goes on with three that do.
C17_Witness ==
    /\ pc = "done" /\ exit = "ok" /\ ~w.isNil
    /\ flags.maxRows = 2
    /\ Len(input) = 4 /\ Len(MatchingInput) = 3
    /\ ~LineMatches(re.groups, input[1])
    /\ SumRows(out) = 2

\* The warnings the run logged, in order.
Warnings == SelectSeq(log, LAMBDA e : e[1] = "[warn] line")

\* One warning for each of the given input positions, in input order.
WarningsFor(ps) ==
    LET at == SelectSeq([i \in 1..Len(input) |-> i], LAMBDA i : i \in ps)
    IN  [k \in 1..Len(at) |-> <<"[warn] line", at[k]>>]

\* Input line i was read before the row limit was reached: there is no
\* limit, or fewer matching lines than the limit precede it.
BeforeLimit(i) ==
    \/ flags.maxRows = 0
    \/ Cardinality({j \in 1..(i - 1) : LineMatches(re.groups, input[j])})
          < flags.maxRows

\* The summary a verbose run prints: the lines read and the rows written.
SummaryPrinted == stdout = <<<<"processed", Len(input), "wrote", SumRows(out)>>>>

BufferedRows ==
    [j \in 1..Rows(w) |-> [i \in 1..Len(w.builders) |-> w.builders[i][j]]]

\* C19: for well-shaped rows and any interleaving of Flush calls, the rows
\* of the returned Records, taken in the order the Records were returned
\* and followed by the rows still buffered, are exactly the rows appended,
\* in order; row j of column i of a Record is value i of the j-th row
\* appended since the previous Flush.
C19_RowsPreservedAcrossBatches ==
    (~w.isNil /\ ~panicked /\ wellShaped) =>
        RowsOfRecords(records) \o BufferedRows = appended

\* Three rows of two values, not all alike, returned as a Record of two
\* rows and a Record of one.
C19_Witness ==
    /\ ~w.isNil /\ ~panicked /\ wellShaped
    /\ Len(w.builders) = 2
    /\ Len(appended) = 3 /\ appended[1] # appended[2]
    /\ Len(records) = 2
    /\ NumRows(records[1]) = 2 /\ NumRows(records[2]) = 1
    /\ RowsOfRecord(records[1]) = <<appended[1], appended[2]>>

C21_BuildersHoldRowsValues ==
    /\ (~w.isNil /\ lastOp = "NewArrowWriter") =>
          /\ Rows(w) = 0
          /\ ~ShouldFlush(w)
          /\ Len(w.builders) = NumFields
          /\ \A i \in 1..Len(w.builders) : w.builders[i] = <<>>
    /\ (~w.isNil /\ wellShaped) =>
          /\ Len(w.builders) = NumFields
          /\ \A i \in 1..Len(w.builders) : Len(w.builders[i]) = Rows(w)

\* Two fields; one row was flushed and two more are buffered.
C21_Witness ==
    /\ ~w.isNil /\ wellShaped /\ ~panicked
    /\ Len(w.builders) = 2
    /\ Len(records) = 1 /\ NumRows(records[1]) = 1
    /\ Rows(w) = 2
    /\ Len(w.builders[1]) = 2 /\ Len(w.builders[2]) = 2

\* C22: with a positive flush interval k the writer of the ingestion loop
\* never buffers more than k rows, and fewer than k whenever the loop is
\* about to read the next line, however long the input.
C22_BufferedRowsBounded ==
    (pc # "lib" /\ ~w.isNil /\ flags.flush > 0) =>
        /\ Rows(w) <= flags.flush
        /\ Running("scan") => Rows(w) < flags.flush

\* An interval of two: after a full batch was flushed, one row is buffered
\* and the loop is about to read the fourth line.
C22_Witness ==
    /\ Running("scan") /\ ~w.isNil
    /\ flags.flush = 2
    /\ lineNum = 3 /\ Len(records) = 1 /\ NumRows(records[1]) = 2
    /\ Rows(w) = 1

\* C23: with a maximum of 0 or less the writer never signals a flush: the
\* ingestion loop emits no Record while it reads input, and a run that
\* returns has emitted all the rows it appended in exactly one Record, or
\* no Record when no row was appended.
C23_NoFlushWithoutPositiveMaximum ==
    (pc # "lib" /\ ~w.isNil /\ flags.flush <= 0) =>
        /\ ~ShouldFlush(w)
        /\ pc \notin {"flush", "write", "release"}
        /\ pc \in {"scan", "parse", "append", "check", "scanned"} =>
              records = <<>> /\ out = <<>>
        /\ (pc = "done" /\ exit = "ok") =>
              /\ Len(appended) =
                    Limited(flags.maxRows, Len(MatchingInput))
              /\ IF appended = <<>>
                 THEN records = <<>> /\ out = <<>>
                 ELSE /\ Len(records) = 1 /\ out = records
                      /\ RowsOfRecord(out[1]) = appended

\* A maximum of zero: three matching lines went out in one final Record.
C23_Witness ==
    /\ pc = "done" /\ exit = "ok" /\ ~w.isNil
    /\ flags.flush = 0 /\ flags.maxRows = 0
    /\ Len(MatchingInput) = 3
    /\ Len(out) = 1 /\ NumRows(out[1]) = 3

\* The number of Records that t rows make with a flush interval k: t / k
\* rounded up for a positive k, one Record (none for t = 0) otherwise.
BatchCount(t, k) ==
    IF k > 0 THEN (t + k - 1) \div k ELSE IF t > 0 THEN 1 ELSE 0

\* C24: the ingestion loop never emits a Record without rows: every Record
\* it receives has at least one row, and a run that returns has written
\* as many Records as its rows need, with no empty Record after them (none
\* for an empty input or one without a matching line, T / k for T rows
\* that are a multiple of the interval k).
C24_NoEmptyRecord ==
    (pc # "lib" /\ ~w.isNil) =>
        /\ \A i \in 1..Len(records) : NumRows(records[i]) > 0
        /\ (pc = "done" /\ exit = "ok") =>
              /\ Len(appended) = Limited(flags.maxRows, Len(MatchingInput))
              /\ Len(out) = BatchCount(Len(appended), flags.flush)

\* Two matching lines and one that does not match with an interval of two:
\* one Record, and no empty Record after it.
C24_Witness ==
    /\ pc = "done" /\ exit = "ok" /\ ~w.isNil
    /\ flags.flush = 2
    /\ Len(input) = 3 /\ Len(MatchingInput) = 2
    /\ Len(out) = 1 /\ NumRows(out[1]) = 2

\* C25: two writers built from the same schema on the same allocator do
\* not interfere: a call on one of them leaves the other's Rows(), its
\* ShouldFlush() result and its buffered values as they were, and leaves
\* every Record the caller holds with the row count and the column values
\* it had.
C25_WritersDoNotInterfere ==
    [][\A n \in 1..Len(ws') :
          (who' = n /\ lastOp' \in {"NewArrowWriter", "Append", "Flush"}) =>
             /\ \A m \in (1..Len(ws)) \ {n} :
                   /\ Rows(ws'[m]) = Rows(ws[m])
                   /\ ShouldFlush(ws'[m]) = ShouldFlush(ws[m])
                   /\ Load(heap', ws'[m]).builders = Load(heap, ws[m]).builders
             /\ \A j \in 1..Len(held) :
                   held[j].refs > 0 =>
                      RecordAt(heap', held'[j]) = RecordAt(heap, held[j])]_vars

\* The first writer returned a Record of one row, which is still held, and
\* buffers another row; the second writer has just taken a row of its own.
C25_Witness ==
    /\ Len(ws) = 2 /\ who = 2 /\ lastOp = "Append"
    /\ Len(held) = 1 /\ held[1].refs = 1
    /\ RecordAt(heap, held[1]).cols = <<<<"a">>, <<"1">>>>
    /\ Load(heap, ws[1]).builders = <<<<"a">>, <<"1">>>>
    /\ Load(heap, ws[2]).builders = <<<<"-">>, <<"-">>>>
    /\ Rows(ws[1]) = 1 /\ Rows(ws[2]) = 1

\* The addresses of the builders the writers use now.
CurrentBuilders == {ws[n].builders[i] : n \in 1..Len(ws), i \in 1..Len(TwoSchema.fields)}

\* The addresses of the columns of the Records the caller has not released.
HeldColumns ==
    {held[j].cols[i] : j \in {k \in 1..Len(held) : held[k].refs > 0},
                       i \in 1..Len(TwoSchema.fields)}

\* Nothing is released twice; a builder in use has one reference, held by
\* its writer, a column of a held Record has one, held by the Record, and
\* nothing else is referenced.
ReferencesBalance ==
    \A a \in 1..Len(heap) :
        /\ heap[a].refs >= 0
        /\ heap[a].refs =
              IF a \in CurrentBuilders \cup HeldColumns THEN 1 ELSE 0
        /\ a \in CurrentBuilders => heap[a].kind = "builder"
        /\ a \in HeldColumns => heap[a].kind = "array"

\* C29: reference counts balance in Flush: every builder from before the
\* Flush is released once and a new, empty builder stands in its place;
\* every column array the Flush made has one reference, held by the
\* Record, so that one Release of the Record leaves no column referenced
\* and no earlier builder alive.
C29_FlushBalancesReferences ==
    /\ []ReferencesBalance
    /\ [][\A n \in 1..Len(ws) :
             (who' = n /\ lastOp' = "Flush") =>
                \A i \in 1..Len(ws[n].builders) :
                   /\ heap[ws[n].builders[i]].refs = 1
                   /\ heap'[ws[n].builders[i]].refs = 0
                   /\ ws'[n].builders[i] > Len(heap)
                   /\ heap'[ws'[n].builders[i]] =
                         Object("builder", NewStringBuilder, 1)
                   /\ held'[Len(held')].cols[i] > Len(heap)
                   /\ heap'[held'[Len(held')].cols[i]].refs = 1]_vars

\* A Record of two rows was returned and released: its columns and the
\* builders that filled them have no reference left.
C29_Witness ==
    /\ Len(ws) >= 1 /\ lastOp = "Release"
    /\ Len(held) = 1 /\ held[1].refs = 0 /\ held[1].nrows = 2
    /\ \A i \in 1..2 : heap[held[1].cols[i]].refs = 0
    /\ heap[1].kind = "builder" /\ heap[1].refs = 0

\* C26: the byte variant of ExtractValues agrees with the string variant:
\* on the same line it returns nil exactly when the string variant does,
\* and otherwise as many values, each the bytes of the string variant's.
C26_BytesAgreeWithString ==
    (lastOp = "ExtractValues" /\ ret.T = "[]byte") =>
        /\ ret.out.isNil <=> vals.isNil
        /\ Len(ret.out.elems) = Len(vals.elems)
        /\ \A i \in 1..Len(vals.elems) :
              ret.out.elems[i] = StringToBytes(vals.elems[i])

\* Both variants returned two captures of a matching line, not both empty.
C26_Witness ==
    /\ lastOp = "ExtractValues" /\ ret.T = "[]byte"
    /\ ~vals.isNil /\ ~ret.out.isNil
    /\ Len(ret.out.elems) = 2
    /\ ret.out.elems[1] # <<>>
    /\ ret.out.elems[1] = StringToBytes(vals.elems[1])

\* C27: for every type argument whose underlying type is string or []byte,
\* named types included, ExtractValues returns nil only for a nil pattern
\* or a line that does not match, and for a matching line the captures
\* converted to that type.
C27_EveryAdmittedTypeGetsCaptures ==
    lastOp = "ExtractValues" =>
        /\ ret.out.isNil <=> (re.isNil \/ ~LineMatches(re.groups, line))
        /\ ~ret.out.isNil =>
              /\ Len(ret.out.elems) = Len(vals.elems)
              /\ \A i \in 1..Len(vals.elems) :
                    ret.out.elems[i] = LineAs(ret.T, vals.elems[i])

\* C28: in a verbose run that returns, whatever --max-rows and
\* --flush-interval are, the line count of the summary is the number of
\* rows written plus the number of warnings logged.
C28_LinesAreRowsPlusWarnings ==
    (pc = "done" /\ exit = "ok" /\ ~w.isNil /\ flags.verbose) =>
        /\ Len(stdout) = 1
        /\ stdout[1][2] = SumRows(out) + Len(Warnings)

====
